---- MODULE Spec2Model ----
(***************************************************************************)
(* The Encode trait of sqlx-core (src/sqlx-core/src/encode.rs) and its     *)
(* three blanket implementations: for &T, for Option<T> and for Cow<T>.    *)
(*                                                                         *)
(* A value is a stack of wrappers around a base value.  A call of one of   *)
(* the trait's methods is executed one method body at a time: every body   *)
(* of encode.rs is one action, which either calls another method (the      *)
(* callee's frame is appended to `chain`) or returns.  Every call of       *)
(* encode.rs is in tail position, so the value the innermost body returns  *)
(* is the value of the whole call.                                         *)
(***************************************************************************)
EXTENDS Naturals, Sequences, FiniteSets

VARIABLES
    buf,     \* the caller's ArgumentBuffer, a sequence of bytes
    chain,   \* the method bodies entered by the call in progress, outermost first
    ret,     \* what the call in progress returned, or Pending
    before,  \* the buffer as it was when the call in progress started
    prev     \* the call completed last: method, value, buffers, result, chain

vars == <<buf, chain, ret, before, prev>>

\* ---------------------------------------------------------------- bounds

\* Wrappers around a base value.
MaxDepth == 2
\* The caller starts a call only on a buffer of at most this many bytes.
MaxBuf == 2

\* ---------------------------------------------------------------- values

\* enum IsNull
IsNull == {"Yes", "No"}

Pending == "pending"

\* Option<DB::TypeInfo>::None
NoTypeInfo == "none"

\* The wrappers of a present value: &T, Some(T), Cow::Borrowed, Cow::Owned.
PresentTags == {"Ref", "Some", "CowB", "CowO"}

\* Base values: the types a driver implements Encode for.  ty is the static
\* type, bytes the wire form, null whether the value encodes as SQL NULL
\* (it then writes nothing), dyn the value-dependent descriptor of a type
\* that overrides produces ("none": the type keeps the default), size what
\* mem::size_of_val gives for the value.
BaseValues ==
    { [ty |-> "INT4", bytes |-> <<0, 5>>, null |-> FALSE, dyn |-> NoTypeInfo, size |-> "4"],
      [ty |-> "TEXT", bytes |-> << >>,    null |-> FALSE, dyn |-> NoTypeInfo, size |-> "24"],
      [ty |-> "TEXT", bytes |-> <<7>>,    null |-> FALSE, dyn |-> NoTypeInfo, size |-> "24"],
      [ty |-> "JSON", bytes |-> << >>,    null |-> TRUE,  dyn |-> "JSONB",    size |-> "32"],
      [ty |-> "JSON", bytes |-> <<9>>,    null |-> FALSE, dyn |-> "JSONB",    size |-> "32"] }

BaseTypes == {b.ty : b \in BaseValues}

\* What stands below a None: only the type T of Option<T>.
TypeOnly(t) ==
    [ty |-> t, bytes |-> << >>, null |-> FALSE, dyn |-> NoTypeInfo, size |-> "0"]

WrapsUpTo(n) == UNION {[1..k -> PresentTags] : k \in 0..n}

Values ==
    {[wraps |-> w, base |-> b] : w \in WrapsUpTo(MaxDepth), b \in BaseValues}
    \cup
    {[wraps |-> Append(w, "None"), base |-> TypeOnly(t)] :
        w \in WrapsUpTo(MaxDepth - 1), t \in BaseTypes}

\* The buffers a caller hands in: empty, or holding an earlier parameter.
StartBuffers == {<< >>, <<3>>}

Methods == {"encode", "encode_by_ref", "produces", "size_hint"}

\* The two methods that write to the buffer.
Encoders == {"encode", "encode_by_ref"}

Depth(v) == Len(v.wraps)
IsBase(v) == v.wraps = << >>
Outer(v) == v.wraps[1]
Inner(v) == [v EXCEPT !.wraps = Tail(v.wraps)]
Wrap(tag, v) == [v EXCEPT !.wraps = <<tag>> \o v.wraps]
IsRef(v) == ~IsBase(v) /\ Outer(v) = "Ref"
IsOption(v) == ~IsBase(v) /\ Outer(v) \in {"Some", "None"}
IsCow(v) == ~IsBase(v) /\ Outer(v) \in {"CowB", "CowO"}

\* The same Cow with the other variant.
Twin(v) ==
    IF IsCow(v)
    THEN Wrap(IF Outer(v) = "CowB" THEN "CowO" ELSE "CowB", Inner(v))
    ELSE v

\* The values a caller encodes next to v: v again, what v wraps, v's twin.
Related(v) ==
    {v, Twin(v)} \cup (IF IsBase(v) \/ Outer(v) = "None" THEN {} ELSE {Inner(v)})

\* ---------------------------------------------------------------- state

NoCall ==
    [m |-> "none", v |-> [wraps |-> << >>, base |-> TypeOnly("INT4")],
     before |-> << >>, after |-> << >>, ret |-> Pending, chain |-> << >>]

Idle == chain = << >>
Running == chain # << >> /\ ret = Pending
Returned == chain # << >> /\ ret # Pending
Top == chain[Len(chain)]
In(m) == Running /\ Top.m = m

Frame(m, v) == [m |-> m, v |-> v]

\* A method body calls method m of v.
Enter(m, v) ==
    /\ chain' = Append(chain, Frame(m, v))
    /\ UNCHANGED <<buf, ret, before, prev>>

\* A method body returns r without a further call.
Leave(r) ==
    /\ ret' = r
    /\ UNCHANGED <<buf, chain, before, prev>>

Init ==
    /\ buf = << >>
    /\ chain = << >>
    /\ ret = Pending
    /\ before = << >>
    /\ prev = NoCall

\* ---------------------------------------------------------------- caller

\* The caller takes another buffer.
NewBuffer(b) ==
    /\ Idle
    /\ buf # b
    /\ buf' = b
    /\ UNCHANGED <<chain, ret, before, prev>>

\* The values the caller may encode now: any value first, afterwards a value
\* related to the one it encoded last.
Callable == IF prev.m = "none" THEN Values ELSE Related(prev.v)

\* The caller calls method m of v on its buffer.
Call(m, v) ==
    /\ Idle
    /\ Len(buf) <= MaxBuf
    /\ chain' = <<Frame(m, v)>>
    /\ before' = buf
    /\ UNCHANGED <<buf, ret, prev>>

\* Every body on the chain returns its callee's result as its own.
Return ==
    /\ Returned
    /\ prev' = [m |-> chain[1].m, v |-> chain[1].v, before |-> before,
                after |-> buf, ret |-> ret, chain |-> chain]
    /\ chain' = << >>
    /\ ret' = Pending
    /\ UNCHANGED <<buf, before>>

\* ---------------------------------------------------------------- trait Encode

\* Encode::encode, the default body: self.encode_by_ref(buf)
DefaultEncode ==
    /\ In("encode")
    /\ IsBase(Top.v)
    /\ Enter("encode_by_ref", Top.v)

\* Encode::encode_by_ref of a base type, the required method.
BaseEncodeByRef ==
    /\ In("encode_by_ref")
    /\ IsBase(Top.v)
    /\ buf' = IF Top.v.base.null THEN buf ELSE buf \o Top.v.base.bytes
    /\ ret' = IF Top.v.base.null THEN "Yes" ELSE "No"
    /\ UNCHANGED <<chain, before, prev>>

\* Encode::produces, the default body: None
DefaultProduces ==
    /\ In("produces")
    /\ IsBase(Top.v)
    /\ Top.v.base.dyn = NoTypeInfo
    /\ Leave(NoTypeInfo)

\* Encode::produces of a base type that overrides it.
BaseProduces ==
    /\ In("produces")
    /\ IsBase(Top.v)
    /\ Top.v.base.dyn # NoTypeInfo
    /\ Leave(Top.v.base.dyn)

\* Encode::size_hint, the default body: mem::size_of_val(self)
DefaultSizeHint ==
    /\ In("size_hint")
    /\ IsBase(Top.v)
    /\ Leave(Top.v.base.size)

\* ---------------------------------------------------------------- impl for &T

\* Variant: encode on the reference hands the referent to T's by-value encode.
RefEncode_ByValue ==
    /\ In("encode")
    /\ IsRef(Top.v)
    /\ Enter("encode", Inner(Top.v))

\* Variant: encode on the reference goes back to the adapter's encode_by_ref.
RefEncode_BackToByRef ==
    /\ In("encode")
    /\ IsRef(Top.v)
    /\ Enter("encode_by_ref", Top.v)

\* <T as Encode<DB>>::encode_by_ref(self, buf)
RefEncode ==
    /\ In("encode")
    /\ IsRef(Top.v)
    /\ Enter("encode_by_ref", Inner(Top.v))

\* Variant: encode_by_ref on the reference calls itself.
RefEncodeByRef_Self ==
    /\ In("encode_by_ref")
    /\ IsRef(Top.v)
    /\ Enter("encode_by_ref", Top.v)

\* <&T as Encode<DB>>::encode(self, buf): self, a &&T, is passed as the &T it
\* points to, to the encode of the same impl.
RefEncodeByRef ==
    /\ In("encode_by_ref")
    /\ IsRef(Top.v)
    /\ Enter("encode", Top.v)

\* (**self).produces()
RefProduces ==
    /\ In("produces")
    /\ IsRef(Top.v)
    /\ Enter("produces", Inner(Top.v))

\* (**self).size_hint()
RefSizeHint ==
    /\ In("size_hint")
    /\ IsRef(Top.v)
    /\ Enter("size_hint", Inner(Top.v))

\* ---------------------------------------------------------------- impl for Option<T>

\* Type::type_info() of T, the statically registered descriptor.
TypeInfo(v) == v.base.ty

\* Variant: no fallback to the static descriptor.
OptionProduces_AbsentNone ==
    /\ In("produces")
    /\ IsOption(Top.v)
    /\ IF Outer(Top.v) = "Some"
       THEN Enter("produces", Inner(Top.v))
       ELSE Leave(NoTypeInfo)

OptionProduces ==
    /\ In("produces")
    /\ IsOption(Top.v)
    /\ IF Outer(Top.v) = "Some"
       THEN Enter("produces", Inner(Top.v))
       ELSE Leave(TypeInfo(Top.v))

\* Variant: None is reported as not null.
OptionEncode_AbsentNotNull ==
    /\ In("encode")
    /\ IsOption(Top.v)
    /\ IF Outer(Top.v) = "Some"
       THEN Enter("encode", Inner(Top.v))
       ELSE Leave("No")

\* Variant: the value of a Some is dropped.
OptionEncode_DropsValue ==
    /\ In("encode")
    /\ IsOption(Top.v)
    /\ Leave("Yes")

\* Variant: None writes a marker byte and reports null.
OptionEncode_AbsentMarker ==
    /\ In("encode")
    /\ IsOption(Top.v)
    /\ IF Outer(Top.v) = "Some"
       THEN Enter("encode", Inner(Top.v))
       ELSE /\ buf' = Append(buf, 0)
            /\ ret' = "Yes"
            /\ UNCHANGED <<chain, before, prev>>

OptionEncode ==
    /\ In("encode")
    /\ IsOption(Top.v)
    /\ IF Outer(Top.v) = "Some"
       THEN Enter("encode", Inner(Top.v))
       ELSE Leave("Yes")

\* Variant: None is reported as not null.
OptionEncodeByRef_AbsentNotNull ==
    /\ In("encode_by_ref")
    /\ IsOption(Top.v)
    /\ IF Outer(Top.v) = "Some"
       THEN Enter("encode_by_ref", Inner(Top.v))
       ELSE Leave("No")

\* Variant: None clears the buffer.
OptionEncodeByRef_AbsentClears ==
    /\ In("encode_by_ref")
    /\ IsOption(Top.v)
    /\ IF Outer(Top.v) = "Some"
       THEN Enter("encode_by_ref", Inner(Top.v))
       ELSE /\ buf' = << >>
            /\ ret' = "Yes"
            /\ UNCHANGED <<chain, before, prev>>

OptionEncodeByRef ==
    /\ In("encode_by_ref")
    /\ IsOption(Top.v)
    /\ IF Outer(Top.v) = "Some"
       THEN Enter("encode_by_ref", Inner(Top.v))
       ELSE Leave("Yes")

\* self.as_ref().map_or(0, Encode::size_hint)
OptionSizeHint ==
    /\ In("size_hint")
    /\ IsOption(Top.v)
    /\ IF Outer(Top.v) = "Some"
       THEN Enter("size_hint", Inner(Top.v))
       ELSE Leave("0")

\* ---------------------------------------------------------------- impl for Cow<T>

\* Variant: an owned Cow hands its value to T's by-value encode.
CowEncode_OwnedByValue ==
    /\ In("encode")
    /\ IsCow(Top.v)
    /\ IF Outer(Top.v) = "CowO"
       THEN Enter("encode", Inner(Top.v))
       ELSE Enter("encode_by_ref", Inner(Top.v))

\* <T as Encode>::encode_by_ref(self.deref(), buf)
CowEncode ==
    /\ In("encode")
    /\ IsCow(Top.v)
    /\ Enter("encode_by_ref", Inner(Top.v))

\* <T as Encode>::encode_by_ref(self, buf)
CowEncodeByRef ==
    /\ In("encode_by_ref")
    /\ IsCow(Top.v)
    /\ Enter("encode_by_ref", Inner(Top.v))

\* <T as Encode>::produces(self)
CowProduces ==
    /\ In("produces")
    /\ IsCow(Top.v)
    /\ Enter("produces", Inner(Top.v))

\* <T as Encode>::size_hint(self)
CowSizeHint ==
    /\ In("size_hint")
    /\ IsCow(Top.v)
    /\ Enter("size_hint", Inner(Top.v))

\* ---------------------------------------------------------------- specification

Next ==
    \/ \E b \in StartBuffers : NewBuffer(b)
    \/ \E m \in Methods, v \in Callable : Call(m, v)
    \/ Return
    \/ DefaultEncode
    \/ BaseEncodeByRef
    \/ DefaultProduces
    \/ BaseProduces
    \/ RefEncode
    \/ RefEncodeByRef
    \/ RefProduces
    \/ OptionProduces
    \/ OptionEncode
    \/ OptionEncodeByRef
    \/ CowEncode
    \/ CowEncodeByRef
    \/ CowProduces
    \/ DefaultSizeHint
    \/ RefSizeHint
    \/ OptionSizeHint
    \/ CowSizeHint

Spec == Init /\ [][Next]_vars

\* ---------------------------------------------------------------- properties

\* The call in progress, as the caller made it.
CurM == chain[1].m
CurV == chain[1].v

IsPrefix(a, b) == Len(a) <= Len(b) /\ SubSeq(b, 1, Len(a)) = a
IsSome(v) == IsOption(v) /\ Outer(v) = "Some"
IsNone(v) == IsOption(v) /\ Outer(v) = "None"
AllRefs(v) == \A i \in 1..Len(v.wraps) : v.wraps[i] = "Ref"

\* The positions of the chain where frame f was entered.
Entries(f) == {i \in 1..Len(chain) : chain[i] = f}
\* The bodies of the impl for &T on the chain.
RefHops == {i \in 1..Len(chain) : IsRef(chain[i].v)}

\* The call just returned left the buffer and the result the previous call left.
SameOutcome == buf = prev.after /\ ret = prev.ret

\* C1.  encode(v) and encode_by_ref(&v), each started on an empty buffer,
\* leave the same buffer contents and return the same IsNull.
EquivalenceLawCase ==
    /\ Returned
    /\ CurM \in Encoders
    /\ prev.m \in Encoders
    /\ prev.m # CurM
    /\ prev.v = CurV
    /\ prev.before = << >>
    /\ before = << >>

EquivalenceLaw == EquivalenceLawCase => SameOutcome

EquivalenceLawWitness ==
    /\ EquivalenceLawCase
    /\ Depth(CurV) = MaxDepth
    /\ ret = "No"
    /\ buf # << >>

\* C2.  encode and encode_by_ref of None return Yes and leave the buffer as it
\* was, whatever it held, and enter no further method body.
OptionalAbsent ==
    \A i \in 1..Len(chain) :
        (chain[i].m \in Encoders /\ IsNone(chain[i].v)) =>
            /\ i = Len(chain)
            /\ buf = before
            /\ ret \in {Pending, "Yes"}

OptionalAbsentWitness ==
    /\ Returned
    /\ CurM \in Encoders
    /\ IsNone(CurV)
    /\ before # << >>
    /\ ret = "Yes"

\* C3.  encode (encode_by_ref) of Some(v) enters encode (encode_by_ref) of v
\* and nothing else, and from the same starting buffer leaves the buffer and
\* the result that the same method of v leaves.
OptionalPresentCase ==
    /\ Returned
    /\ CurM \in Encoders
    /\ prev.m = CurM
    /\ IsSome(prev.v)
    /\ CurV = Inner(prev.v)
    /\ prev.before = before

OptionalPresent ==
    /\ \A i \in 1..Len(chain) :
         (chain[i].m \in Encoders /\ IsSome(chain[i].v) /\ i < Len(chain)) =>
             chain[i + 1] = Frame(chain[i].m, Inner(chain[i].v))
    /\ OptionalPresentCase => SameOutcome

OptionalPresentWitness ==
    /\ OptionalPresentCase
    /\ before # << >>
    /\ buf # before
    /\ ret = "No"

\* C4.  produces of None returns the static descriptor of T, never none;
\* produces of Some(v) returns what produces of v returns; produces never
\* touches the buffer and returns the same when called again.
OptionalProduces ==
    /\ (chain # << >> /\ CurM = "produces") => buf = before
    /\ (Returned /\ CurM = "produces" /\ IsNone(CurV)) =>
           /\ ret = CurV.base.ty
           /\ ret # NoTypeInfo
           /\ Len(chain) = 1
    /\ (Returned /\ CurM = "produces" /\ prev.m = "produces"
           /\ IsSome(prev.v) /\ CurV = Inner(prev.v)) => ret = prev.ret
    /\ (Returned /\ CurM = "produces" /\ prev.m = "produces"
           /\ CurV = prev.v) => ret = prev.ret

OptionalProducesWitness ==
    /\ Returned
    /\ CurM = "produces"
    /\ IsNone(CurV)
    /\ CurV.base.ty = "JSON"
    /\ before # << >>
    /\ prev.m = "produces"

RefTransparencyCase ==
    /\ Returned
    /\ CurM = "encode_by_ref"
    /\ prev.m \in Encoders
    /\ IsRef(prev.v)
    /\ CurV = Inner(prev.v)
    /\ prev.before = before

CowTransparencyCase ==
    /\ Returned
    /\ CurM \in Encoders
    /\ prev.m = CurM
    /\ IsCow(CurV)
    /\ prev.v = Twin(CurV)
    /\ prev.before = before

CowTransparency ==
    /\ \A i \in 1..Len(chain) :
         (IsCow(chain[i].v) /\ i < Len(chain)) =>
             chain[i + 1] =
                 Frame(IF chain[i].m = "encode" THEN "encode_by_ref" ELSE chain[i].m,
                       Inner(chain[i].v))
    /\ CowTransparencyCase => SameOutcome

CowTransparencyWitness ==
    /\ CowTransparencyCase
    /\ Outer(CurV) = "CowO"
    /\ CurM = "encode"
    /\ before # << >>
    /\ buf # before

\* C7, as claimed.  After encode or encode_by_ref exactly one of: data was
\* appended, Yes was returned.
NullXorData ==
    (Returned /\ CurM \in Encoders) => ((buf # before) # (ret = "Yes"))

\* C7, as amended.  After encode or encode_by_ref at most one of: data was
\* appended, Yes was returned.
NullNeverWithData ==
    (Returned /\ CurM \in Encoders) =>
        /\ ret \in IsNull
        /\ ~(ret = "Yes" /\ buf # before)

NullNeverWithDataWitness ==
    /\ Returned
    /\ CurM \in Encoders
    /\ Depth(CurV) = MaxDepth
    /\ ret = "Yes"
    /\ before # << >>

\* C8.  During and after a call the buffer the call started on is a prefix of
\* the buffer, and what the call appended is what the same call leaves in an
\* empty buffer.
AppendOnlyCase ==
    /\ Returned
    /\ CurM \in Encoders
    /\ prev.m = CurM
    /\ prev.v = CurV
    /\ prev.before = << >>

AppendOnly ==
    /\ chain # << >> => IsPrefix(before, buf)
    /\ AppendOnlyCase => buf = before \o prev.after

AppendOnlyWitness ==
    /\ AppendOnlyCase
    /\ prev.after # << >>
    /\ before = prev.after
    /\ ~IsBase(CurV)

====
